---- MODULE Spec2Model ----
(***************************************************************************)
(* Credit ledger ("fiados") of Kiosco Manager: src/database.py.            *)
(*                                                                         *)
(* Money.  Every amount is an integer number of thousandths of a currency  *)
(* unit (1000 = 1.00, 10 = 0.01), so that amounts with more than two       *)
(* decimals exist and round(x, 2) is a real conversion.  Python floats are *)
(* modelled as exact decimals; round() rounds half to even as Python does  *)
(* on exactly representable values.  Percentages are whole numbers.        *)
(*                                                                         *)
(* Store.  Every call opens its own sqlite3 connection in autocommit mode  *)
(* (isolation_level=None) on a WAL database.  A statement outside BEGIN is *)
(* its own transaction.  "BEGIN TRANSACTION" is deferred: the first SELECT *)
(* pins a snapshot, the first write asks for the single write lock and     *)
(* fails at once with SQLITE_BUSY when another connection holds the lock   *)
(* or has committed since the snapshot was taken.  Readers see only        *)
(* committed data, which is the variable db.                               *)
(*                                                                         *)
(* Time.  reloj is the reading of datetime('now', 'localtime'), the local  *)
(* wall clock in whole seconds, which the fiados table stores as           *)
(* fecha_creacion.  The specifications that are not about order keep it    *)
(* still: every fiado is then created within the same second.              *)
(***************************************************************************)
EXTENDS Integers, Sequences, FiniteSets, TLC

VARIABLES db, commits, writer, stale, pc, args, txn, rows, idx, result, reloj

vars == <<db, commits, writer, stale, pc, args, txn, rows, idx, result, reloj>>

----------------------------------------------------------------------------
(* Bounds of the model *)

NumProcs == 2
MaxClientes == 2
MaxFiados == 2
MaxCommits == 5
MaxReloj == 2

Procs == 1..NumProcs

\* identifiers a caller may pass: those that can exist and one that never does
ClienteIds == 1..(MaxClientes + 1)
FiadoIds == 1..(MaxFiados + 1)

----------------------------------------------------------------------------
(* Money rounding: Python's round(x, 2) *)

\* n/d thousandths rounded to a whole number of hundredths, ties to even
Round2Q(n, d) ==
    LET q == n \div (10 * d)
        r == n - q * (10 * d)
    IN  IF 2 * r < 10 * d THEN 10 * q
        ELSE IF 2 * r > 10 * d THEN 10 * (q + 1)
        ELSE IF q % 2 = 0 THEN 10 * q ELSE 10 * (q + 1)

Round2(x) == Round2Q(x, 1)

\* the tolerance literal 0.01 of the code
Tolerancia == 10

\* EstadoFiado
PENDIENTE == "Pendiente"
PAGADO == "Pagado"
PARCIAL == "Parcial"

----------------------------------------------------------------------------
(* The store *)

EmptyDb == [clientes |-> <<>>, fiados |-> <<>>, lastFiado |-> 0, pagos |-> <<>>, lastPago |-> 0]

NoArgs == [id |-> 0, monto |-> 0]

NoResult == [op |-> "none", status |-> "none", causa |-> "none", val |-> 0]

\* nombre.strip()
RECURSIVE LStrip(_)
LStrip(s) == IF s # <<>> /\ Head(s) = " " THEN LStrip(Tail(s)) ELSE s

RECURSIVE RStrip(_)
RStrip(s) == IF s # <<>> /\ s[Len(s)] = " " THEN RStrip(SubSeq(s, 1, Len(s) - 1)) ELSE s

Strip(s) == RStrip(LStrip(s))

\* FiadoChecks as it would be without CHECK(interes_porcentaje >= 0)
FiadoChecksSinInteres(f) ==
    /\ f.monto_original > 0
    /\ f.monto_total > 0
    /\ f.monto_pagado >= 0
    /\ f.saldo_pendiente >= 0
    /\ f.estado \in {PENDIENTE, PAGADO, PARCIAL}

\* CHECK constraints of table fiados
FiadoChecks(f) ==
    /\ f.monto_original > 0
    /\ f.interes_porcentaje >= 0
    /\ f.monto_total > 0
    /\ f.monto_pagado >= 0
    /\ f.saldo_pendiente >= 0
    /\ f.estado \in {PENDIENTE, PAGADO, PARCIAL}

\* CHECK constraint of table pagos_fiados
\* PagoChecks as it would be without CHECK(monto > 0)
PagoChecksSinMinimo(pg) == TRUE

PagoChecks(pg) == pg.monto > 0

\* ClienteChecks as it would be without UNIQUE on nombre
ClienteChecksSinUnique(d, nombre) == Len(nombre) >= 2

\* CHECK and UNIQUE constraints of table clientes
ClienteChecks(d, nombre) ==
    /\ Len(nombre) >= 2
    /\ \A i \in 1..Len(d.clientes) : d.clientes[i] # nombre

\* processes that hold a read snapshot inside BEGIN ... COMMIT
TxnPcs == {"rp_insert", "rp_update", "rp_commit", "ai_update", "ai_commit",
           "pt_insert", "pt_update", "pt_commit"}

InTxn(q) == pc[q] \in TxnPcs

\* a commit by p ends every other connection's chance to upgrade its snapshot
StaleAfterCommit(p) == [q \in Procs |-> IF q # p /\ InTxn(q) THEN TRUE ELSE stale[q]]

\* the calls in progress
EnCurso == Cardinality({q \in Procs : pc[q] # "idle"})

\* the model follows the store for MaxCommits writes, committed or in progress:
\* the guard of the first step of every call
Budget == commits + EnCurso < MaxCommits

\* Busy as it would be if a snapshot overtaken by a commit could still be upgraded
BusySinSnapshot(p) == writer # 0 /\ writer # p

\* SQLITE_BUSY on the first write of a deferred transaction
Busy(p) == (writer # 0 /\ writer # p) \/ stale[p]

Init ==
    /\ db = EmptyDb
    /\ commits = 0
    /\ writer = 0
    /\ stale = [p \in Procs |-> FALSE]
    /\ pc = [p \in Procs |-> "idle"]
    /\ args = [p \in Procs |-> NoArgs]
    /\ txn = [p \in Procs |-> EmptyDb]
    /\ rows = [p \in Procs |-> <<>>]
    /\ idx = [p \in Procs |-> 0]
    /\ result = NoResult
    /\ reloj = 0

\* the call of p ends: it returns val (status "ok") or raises DatabaseError, whose
\* cause is the exception that the except clauses wrapped; result holds the
\* outcome of the call that ended in the last step, if one did (val of a
\* failed call: the step that raised)
Finish(p, op, status, causa, val) ==
    /\ pc' = [pc EXCEPT ![p] = "idle"]
    /\ args' = [args EXCEPT ![p] = NoArgs]
    /\ txn' = [txn EXCEPT ![p] = EmptyDb]
    /\ rows' = [rows EXCEPT ![p] = <<>>]
    /\ idx' = [idx EXCEPT ![p] = 0]
    /\ result' = [op |-> op, status |-> status, causa |-> causa, val |-> val]
    /\ reloj' = reloj

\* Rollback as it would be if the statements had been committed one by one
RollbackParcial(p, op, causa) ==
    /\ writer' = IF writer = p THEN 0 ELSE writer
    /\ stale' = [stale EXCEPT ![p] = FALSE]
    /\ db' = IF writer = p THEN txn[p] ELSE db
    /\ commits' = commits
    /\ Finish(p, op, "DatabaseError", causa, pc[p])

\* conn.execute("ROLLBACK"): the snapshot and the writes of p are dropped
Rollback(p, op, causa) ==
    /\ writer' = IF writer = p THEN 0 ELSE writer
    /\ stale' = [stale EXCEPT ![p] = FALSE]
    /\ db' = db
    /\ commits' = commits
    /\ Finish(p, op, "DatabaseError", causa, pc[p])

----------------------------------------------------------------------------
(* agregar_cliente *)

AgregarCliente(p, nombre) ==
    /\ pc[p] = "idle"
    /\ writer = 0
    /\ IF ClienteChecks(db, Strip(nombre))
       THEN /\ Budget
            /\ Len(db.clientes) < MaxClientes
            /\ db' = [db EXCEPT !.clientes = Append(@, Strip(nombre))]
            /\ commits' = IF db' # db THEN commits + 1 ELSE commits
            /\ stale' = StaleAfterCommit(p)
            /\ Finish(p, "agregar_cliente", "ok", "none", Len(db.clientes) + 1)
       ELSE /\ db' = db
            /\ commits' = commits
            /\ stale' = stale
            /\ Finish(p, "agregar_cliente", "DatabaseError",
                      IF Len(Strip(nombre)) >= 2 THEN "IntegrityError: UNIQUE"
                                                 ELSE "IntegrityError: CHECK", pc[p])
    /\ UNCHANGED writer

----------------------------------------------------------------------------
(* agregar_fiado *)

\* NuevoFiado as it would be if the balance started at the principal
NuevoFiadoSinInteres(cliente_id, monto, interes) ==
    [cliente_id |-> cliente_id,
     monto_original |-> monto,
     interes_porcentaje |-> interes,
     monto_total |-> Round2Q(monto * (100 + interes), 100),
     monto_pagado |-> 0,
     saldo_pendiente |-> monto,
     estado |-> PENDIENTE,
     fecha_creacion |-> reloj,
     fecha_pago |-> FALSE]

\* the row that agregar_fiado inserts; the columns it leaves out get their defaults
NuevoFiado(cliente_id, monto, interes) ==
    LET monto_total == Round2Q(monto * (100 + interes), 100)
    IN  [cliente_id |-> cliente_id,
         monto_original |-> monto,
         interes_porcentaje |-> interes,
         monto_total |-> monto_total,
         monto_pagado |-> 0,
         saldo_pendiente |-> monto_total,
         estado |-> PENDIENTE,
         fecha_creacion |-> reloj,
         fecha_pago |-> FALSE]

\* INSERT INTO fiados: the row gets the next AUTOINCREMENT id
InsertFiado(d, f) ==
    [d EXCEPT !.fiados = [i \in DOMAIN d.fiados \cup {d.lastFiado + 1} |->
                             IF i = d.lastFiado + 1 THEN f ELSE d.fiados[i]],
              !.lastFiado = @ + 1]

AgregarFiado(p, cliente_id, monto, interes) ==
    /\ pc[p] = "idle"
    /\ writer = 0
    /\ LET f == NuevoFiado(cliente_id, monto, interes)
       IN  IF FiadoChecks(f) /\ cliente_id \in 1..Len(db.clientes)
           THEN /\ Budget
                /\ db.lastFiado < MaxFiados
                /\ db' = InsertFiado(db, f)
                /\ commits' = IF db' # db THEN commits + 1 ELSE commits
                /\ stale' = StaleAfterCommit(p)
                /\ Finish(p, "agregar_fiado", "ok", "none", db.lastFiado + 1)
           ELSE /\ db' = db
                /\ commits' = commits
                /\ stale' = stale
                /\ Finish(p, "agregar_fiado", "DatabaseError",
                          IF FiadoChecks(f) THEN "IntegrityError: FOREIGN KEY"
                                            ELSE "IntegrityError: CHECK", pc[p])
    /\ UNCHANGED writer

----------------------------------------------------------------------------
(* registrar_pago_fiado *)

\* INSERT INTO pagos_fiados: the row gets the next AUTOINCREMENT id and the
\* local time as its fecha_pago
InsertPago(d, fiado_id, monto) ==
    [d EXCEPT !.pagos = Append(@, [id |-> d.lastPago + 1, fiado_id |-> fiado_id,
                                   monto |-> monto, fecha_pago |-> reloj]),
              !.lastPago = @ + 1]

\* RpSelect as it would be without the check of estado
RpSelectSinEstado(p, fiado_id, monto) ==
    /\ pc[p] = "idle"
    /\ Budget
    /\ IF fiado_id \notin DOMAIN db.fiados
       THEN Rollback(p, "registrar_pago_fiado", "ValueError: no encontrado")
       ELSE IF monto > db.fiados[fiado_id].saldo_pendiente
       THEN Rollback(p, "registrar_pago_fiado", "ValueError: excede saldo")
       ELSE /\ pc' = [pc EXCEPT ![p] = "rp_insert"]
            /\ args' = [args EXCEPT ![p] = [id |-> fiado_id, monto |-> monto]]
            /\ txn' = [txn EXCEPT ![p] = db]
            /\ rows' = [rows EXCEPT ![p] = <<[id |-> fiado_id, f |-> db.fiados[fiado_id]]>>]
            /\ stale' = [stale EXCEPT ![p] = FALSE]
            /\ result' = NoResult
            /\ UNCHANGED <<reloj, db, commits, writer, idx>>

\* BEGIN TRANSACTION, SELECT ... FROM fiados WHERE id = ?, and the three checks
RpSelect(p, fiado_id, monto) ==
    /\ pc[p] = "idle"
    /\ Budget
    /\ LET inp == [id |-> fiado_id, monto |-> monto]
       IN  IF fiado_id \notin DOMAIN db.fiados
           THEN Rollback(p, "registrar_pago_fiado", "ValueError: no encontrado")
           ELSE IF db.fiados[fiado_id].estado = PAGADO
           THEN Rollback(p, "registrar_pago_fiado", "ValueError: ya pagado")
           ELSE IF monto > db.fiados[fiado_id].saldo_pendiente
           THEN Rollback(p, "registrar_pago_fiado", "ValueError: excede saldo")
           ELSE /\ pc' = [pc EXCEPT ![p] = "rp_insert"]
                /\ args' = [args EXCEPT ![p] = inp]
                /\ txn' = [txn EXCEPT ![p] = db]
                /\ rows' = [rows EXCEPT ![p] = <<[id |-> fiado_id, f |-> db.fiados[fiado_id]]>>]
                /\ stale' = [stale EXCEPT ![p] = FALSE]
                /\ result' = NoResult
                /\ UNCHANGED <<reloj, db, commits, writer, idx>>

nuevo_pagado(fiado, monto) == Round2(fiado.monto_pagado + monto)

nuevo_saldo(fiado, monto) == Round2(fiado.monto_total - nuevo_pagado(fiado, monto))

\* INSERT INTO pagos_fiados: the first write of the transaction
RpInsert(p) ==
    /\ pc[p] = "rp_insert"
    /\ IF Busy(p)
       THEN Rollback(p, "registrar_pago_fiado", "OperationalError")
       ELSE IF ~PagoChecks([monto |-> args[p].monto])
       THEN Rollback(p, "registrar_pago_fiado", "IntegrityError")
       ELSE /\ writer' = p
            /\ txn' = [txn EXCEPT ![p] = InsertPago(@, args[p].id, args[p].monto)]
            /\ pc' = [pc EXCEPT ![p] = "rp_update"]
            /\ result' = NoResult
            /\ UNCHANGED <<reloj, db, commits, stale, args, rows, idx>>

\* FiadoTrasPago as it would be without the tolerance branch
FiadoTrasPagoSinTolerancia(old, fiado, monto) ==
    [old EXCEPT !.monto_pagado = nuevo_pagado(fiado, monto),
                !.saldo_pendiente = nuevo_saldo(fiado, monto),
                !.estado = IF nuevo_saldo(fiado, monto) <= 0 THEN PAGADO ELSE PARCIAL,
                !.fecha_pago = nuevo_saldo(fiado, monto) <= 0]

\* FiadoTrasPago as it would be if every payment stamped fecha_pago
FiadoTrasPagoConFecha(old, fiado, monto) ==
    IF nuevo_saldo(fiado, monto) <= Tolerancia
    THEN [old EXCEPT !.monto_pagado = nuevo_pagado(fiado, monto),
                     !.saldo_pendiente = 0,
                     !.estado = PAGADO,
                     !.fecha_pago = TRUE]
    ELSE [old EXCEPT !.monto_pagado = nuevo_pagado(fiado, monto),
                     !.saldo_pendiente = nuevo_saldo(fiado, monto),
                     !.estado = PARCIAL,
                     !.fecha_pago = TRUE]

\* the fiado row as UPDATE fiados SET monto_pagado, saldo_pendiente, estado, fecha_pago writes it
FiadoTrasPago(old, fiado, monto) ==
    IF nuevo_saldo(fiado, monto) <= Tolerancia
    THEN [old EXCEPT !.monto_pagado = nuevo_pagado(fiado, monto),
                     !.saldo_pendiente = 0,
                     !.estado = PAGADO,
                     !.fecha_pago = TRUE]
    ELSE [old EXCEPT !.monto_pagado = nuevo_pagado(fiado, monto),
                     !.saldo_pendiente = nuevo_saldo(fiado, monto),
                     !.estado = PARCIAL,
                     !.fecha_pago = FALSE]

RpUpdate(p) ==
    /\ pc[p] = "rp_update"
    /\ LET id == args[p].id
           f == FiadoTrasPago(txn[p].fiados[id], rows[p][1].f, args[p].monto)
       IN  IF ~FiadoChecks(f)
           THEN Rollback(p, "registrar_pago_fiado", "IntegrityError")
           ELSE /\ txn' = [txn EXCEPT ![p].fiados[id] = f]
                /\ pc' = [pc EXCEPT ![p] = "rp_commit"]
                /\ result' = NoResult
                /\ UNCHANGED <<reloj, db, commits, writer, stale, args, rows, idx>>

\* the dict returned by registrar_pago_fiado
RpResult(p) ==
    LET fiado == rows[p][1].f
        monto == args[p].monto
        saldo == IF nuevo_saldo(fiado, monto) <= Tolerancia THEN 0 ELSE nuevo_saldo(fiado, monto)
    IN  [pago_id |-> txn[p].lastPago,
         fiado_id |-> args[p].id,
         monto_pagado |-> monto,
         total_pagado |-> nuevo_pagado(fiado, monto),
         saldo_anterior |-> fiado.saldo_pendiente,
         saldo_restante |-> saldo,
         estado |-> IF nuevo_saldo(fiado, monto) <= Tolerancia THEN PAGADO ELSE PARCIAL,
         completado |-> saldo <= Tolerancia]

\* conn.execute("COMMIT")
RpCommit(p) ==
    /\ pc[p] = "rp_commit"
    /\ db' = txn[p]
    /\ commits' = IF db' # db THEN commits + 1 ELSE commits
    /\ writer' = 0
    /\ stale' = StaleAfterCommit(p)
    /\ Finish(p, "registrar_pago_fiado", "ok", "none", RpResult(p))

----------------------------------------------------------------------------
(* modificar_fiado: SELECT and UPDATE are two autocommit statements *)

MfSelect(p, fiado_id, monto) ==
    /\ pc[p] = "idle"
    /\ Budget
    /\ LET inp == [id |-> fiado_id, monto |-> monto]
       IN  IF fiado_id \notin DOMAIN db.fiados
           THEN Rollback(p, "modificar_fiado", "DatabaseError: no encontrado")
           ELSE IF db.fiados[fiado_id].estado = PAGADO
           THEN Rollback(p, "modificar_fiado", "DatabaseError: ya pagado")
           ELSE /\ pc' = [pc EXCEPT ![p] = "mf_update"]
                /\ args' = [args EXCEPT ![p] = inp]
                /\ rows' = [rows EXCEPT ![p] = <<[id |-> fiado_id, f |-> db.fiados[fiado_id]]>>]
                /\ result' = NoResult
                /\ UNCHANGED <<reloj, db, commits, writer, stale, txn, idx>>

\* FiadoModificado as it would be if an edit reopened the fiado
FiadoModificadoReabre(old, fiado, monto) ==
    [old EXCEPT !.monto_original = monto - (fiado.monto_total - fiado.monto_pagado),
                !.monto_total = monto,
                !.saldo_pendiente = monto - fiado.monto_pagado,
                !.interes_porcentaje = 0,
                !.estado = PENDIENTE]

\* the row as UPDATE fiados SET monto_original, monto_total, saldo_pendiente,
\* interes_porcentaje writes it, from the values read by the SELECT
FiadoModificado(old, fiado, monto) ==
    [old EXCEPT !.monto_original = monto - (fiado.monto_total - fiado.monto_pagado),
                !.monto_total = monto,
                !.saldo_pendiente = monto - fiado.monto_pagado,
                !.interes_porcentaje = 0]

MfUpdate(p) ==
    /\ pc[p] = "mf_update"
    /\ writer = 0
    /\ LET id == args[p].id
       IN  IF id \notin DOMAIN db.fiados
           THEN /\ UNCHANGED <<db, commits, stale>>
                /\ Finish(p, "modificar_fiado", "ok", "none", TRUE)
           ELSE LET f == FiadoModificado(db.fiados[id], rows[p][1].f, args[p].monto)
                IN  IF ~FiadoChecks(f)
                    THEN /\ UNCHANGED <<db, commits, stale>>
                         /\ Finish(p, "modificar_fiado", "DatabaseError", "IntegrityError", pc[p])
                    ELSE /\ db' = [db EXCEPT !.fiados[id] = f]
                         /\ commits' = IF db' # db THEN commits + 1 ELSE commits
                         /\ stale' = StaleAfterCommit(p)
                         /\ Finish(p, "modificar_fiado", "ok", "none", TRUE)
    /\ UNCHANGED writer

----------------------------------------------------------------------------
(* eliminar_fiado: SELECT and DELETE are two autocommit statements *)

\* EfSelect as it would be without the check of estado
EfSelectSinEstado(p, fiado_id) ==
    /\ pc[p] = "idle"
    /\ Budget
    /\ IF fiado_id \notin DOMAIN db.fiados
       THEN Rollback(p, "eliminar_fiado", "DatabaseError: no encontrado")
       ELSE /\ pc' = [pc EXCEPT ![p] = "ef_delete"]
            /\ args' = [args EXCEPT ![p] = [id |-> fiado_id, monto |-> 0]]
            /\ rows' = [rows EXCEPT ![p] = <<[id |-> fiado_id, f |-> db.fiados[fiado_id]]>>]
            /\ result' = NoResult
            /\ UNCHANGED <<reloj, db, commits, writer, stale, txn, idx>>

\* SELECT estado FROM fiados WHERE id = ?, and the two checks
EfSelect(p, fiado_id) ==
    /\ pc[p] = "idle"
    /\ Budget
    /\ LET inp == [id |-> fiado_id, monto |-> 0]
       IN  IF fiado_id \notin DOMAIN db.fiados
           THEN Rollback(p, "eliminar_fiado", "DatabaseError: no encontrado")
           ELSE IF db.fiados[fiado_id].estado = PAGADO
           THEN Rollback(p, "eliminar_fiado", "DatabaseError: ya pagado")
           ELSE /\ pc' = [pc EXCEPT ![p] = "ef_delete"]
                /\ args' = [args EXCEPT ![p] = inp]
                /\ rows' = [rows EXCEPT ![p] = <<[id |-> fiado_id, f |-> db.fiados[fiado_id]]>>]
                /\ result' = NoResult
                /\ UNCHANGED <<reloj, db, commits, writer, stale, txn, idx>>

\* DELETE FROM fiados WHERE id = ?, with ON DELETE CASCADE of pagos_fiados
DeleteFiado(d, id) ==
    [d EXCEPT !.fiados = [i \in DOMAIN d.fiados \ {id} |-> d.fiados[i]],
              !.pagos = SelectSeq(@, LAMBDA pg : pg.fiado_id # id)]

EfDelete(p) ==
    /\ pc[p] = "ef_delete"
    /\ writer = 0
    /\ db' = DeleteFiado(db, args[p].id)
    /\ commits' = IF db' # db THEN commits + 1 ELSE commits
    /\ stale' = IF db' # db THEN StaleAfterCommit(p) ELSE stale
    /\ Finish(p, "eliminar_fiado", "ok", "none", TRUE)
    /\ UNCHANGED writer

----------------------------------------------------------------------------
(* obtener_historial_fiado *)

\* ORDER BY fecha_pago DESC over the rows of the scan of idx_pagos_fiado_id
\* (ascending id); rows with the same fecha_pago stay in the order of the scan
RECURSIVE InsertarPago(_, _)
InsertarPago(r, rs) ==
    IF rs = <<>> THEN <<r>>
    ELSE IF r.fecha_pago >= Head(rs).fecha_pago THEN <<r>> \o rs
    ELSE <<Head(rs)>> \o InsertarPago(r, Tail(rs))

RECURSIVE OrdenPorFechaPago(_)
OrdenPorFechaPago(rs) ==
    IF rs = <<>> THEN <<>> ELSE InsertarPago(Head(rs), OrdenPorFechaPago(Tail(rs)))

\* SELECT * FROM pagos_fiados WHERE fiado_id = ?
PagosDelFiado(d, fiado_id) == SelectSeq(d.pagos, LAMBDA pg : pg.fiado_id = fiado_id)

\* one autocommit SELECT: it reads the committed store and returns the rows
ObtenerHistorialFiado(p, fiado_id) ==
    /\ pc[p] = "idle"
    /\ UNCHANGED <<db, commits, writer, stale>>
    /\ Finish(p, "obtener_historial_fiado", "ok", "none",
              OrdenPorFechaPago(PagosDelFiado(db, fiado_id)))

----------------------------------------------------------------------------
\* the operation a step belongs to
OpDe(step) ==
    IF step \in {"rp_insert", "rp_update", "rp_commit"} THEN "registrar_pago_fiado"
    ELSE IF step \in {"ai_update", "ai_commit"} THEN "aplicar_interes_fiados_cliente"
    ELSE IF step \in {"pt_insert", "pt_update", "pt_commit"} THEN "pagar_todos_fiados_cliente"
    ELSE IF step = "mf_update" THEN "modificar_fiado"
    ELSE "eliminar_fiado"

\* a statement or the COMMIT of a transaction raises sqlite3.Error (disk full,
\* I/O error): "except Exception" runs ROLLBACK and the error is raised again
StorageError(p) ==
    /\ InTxn(p)
    /\ Rollback(p, OpDe(pc[p]), "StorageError")

\* the 30 s busy timeout of an autocommit write that waits for the write lock
BusyTimeout(p) ==
    /\ pc[p] \in {"mf_update", "ef_delete"}
    /\ writer # 0
    /\ UNCHANGED <<db, commits, writer, stale>>
    /\ Finish(p, OpDe(pc[p]), "DatabaseError", "OperationalError", pc[p])

----------------------------------------------------------------------------
(* the open fiados of a client, as both batch operations select them *)

\* the SELECT as it would be without "AND estado IN ('Pendiente', 'Parcial')"
RECURSIVE FiadosDelCliente(_, _, _)
FiadosDelCliente(d, cliente_id, i) ==
    IF i > d.lastFiado THEN <<>>
    ELSE IF i \in DOMAIN d.fiados /\ d.fiados[i].cliente_id = cliente_id
         THEN <<[id |-> i, f |-> d.fiados[i]]>> \o FiadosDelCliente(d, cliente_id, i + 1)
         ELSE FiadosDelCliente(d, cliente_id, i + 1)

\* the SELECT as it would be without "cliente_id = ?"
RECURSIVE FiadosAbiertosDeTodos(_, _, _)
FiadosAbiertosDeTodos(d, cliente_id, i) ==
    IF i > d.lastFiado THEN <<>>
    ELSE IF i \in DOMAIN d.fiados /\ d.fiados[i].estado \in {PENDIENTE, PARCIAL}
         THEN <<[id |-> i, f |-> d.fiados[i]]>> \o FiadosAbiertosDeTodos(d, cliente_id, i + 1)
         ELSE FiadosAbiertosDeTodos(d, cliente_id, i + 1)

RECURSIVE FiadosAbiertos(_, _, _)
FiadosAbiertos(d, cliente_id, i) ==
    IF i > d.lastFiado THEN <<>>
    ELSE IF i \in DOMAIN d.fiados /\ d.fiados[i].cliente_id = cliente_id
            /\ d.fiados[i].estado \in {PENDIENTE, PARCIAL}
         THEN <<[id |-> i, f |-> d.fiados[i]]>> \o FiadosAbiertos(d, cliente_id, i + 1)
         ELSE FiadosAbiertos(d, cliente_id, i + 1)

\* ORDER BY fecha_creacion ASC over the rows of the scan; rows with the same
\* fecha_creacion stay in the order of the scan
RECURSIVE Insertar(_, _)
Insertar(r, rs) ==
    IF rs = <<>> THEN <<r>>
    ELSE IF r.f.fecha_creacion <= Head(rs).f.fecha_creacion THEN <<r>> \o rs
    ELSE <<Head(rs)>> \o Insertar(r, Tail(rs))

RECURSIVE OrdenPorFecha(_)
OrdenPorFecha(rs) ==
    IF rs = <<>> THEN <<>> ELSE Insertar(Head(rs), OrdenPorFecha(Tail(rs)))

RECURSIVE SumSaldo(_)
SumSaldo(rs) == IF rs = <<>> THEN 0 ELSE Head(rs).f.saldo_pendiente + SumSaldo(Tail(rs))

----------------------------------------------------------------------------
(* aplicar_interes_fiados_cliente *)

\* BEGIN TRANSACTION, SELECT of the open fiados, "if not fiados"
AiSelect(p, cliente_id, porcentaje) ==
    /\ pc[p] = "idle"
    /\ Budget
    /\ LET inp == [id |-> cliente_id, monto |-> porcentaje]
           fiados == FiadosAbiertos(db, cliente_id, 1)
       IN  IF fiados = <<>>
           THEN Rollback(p, "aplicar_interes_fiados_cliente", "ValueError: sin fiados")
           ELSE /\ pc' = [pc EXCEPT ![p] = "ai_update"]
                /\ args' = [args EXCEPT ![p] = inp]
                /\ txn' = [txn EXCEPT ![p] = db]
                /\ rows' = [rows EXCEPT ![p] = fiados]
                /\ idx' = [idx EXCEPT ![p] = 1]
                /\ stale' = [stale EXCEPT ![p] = FALSE]
                /\ result' = NoResult
                /\ UNCHANGED <<reloj, db, commits, writer>>

nuevo_interes(fiado, porcentaje) == fiado.interes_porcentaje + porcentaje

\* nuevo_monto_total as it would be if interest compounded on monto_total
nuevo_monto_total_compuesto(fiado, porcentaje) ==
    Round2Q(fiado.monto_total * (100 + porcentaje), 100)

nuevo_monto_total(fiado, porcentaje) ==
    Round2Q(fiado.monto_original * (100 + nuevo_interes(fiado, porcentaje)), 100)

\* the row as UPDATE fiados SET interes_porcentaje, monto_total, saldo_pendiente writes it
FiadoConInteres(old, fiado, porcentaje) ==
    LET monto_pagado == fiado.monto_total - fiado.saldo_pendiente
    IN  [old EXCEPT !.interes_porcentaje = nuevo_interes(fiado, porcentaje),
                    !.monto_total = nuevo_monto_total(fiado, porcentaje),
                    !.saldo_pendiente = Round2(nuevo_monto_total(fiado, porcentaje) - monto_pagado)]

\* one iteration of "for fiado in fiados"
AiUpdate(p) ==
    /\ pc[p] = "ai_update"
    /\ LET r == rows[p][idx[p]]
           f == FiadoConInteres(txn[p].fiados[r.id], r.f, args[p].monto)
       IN  IF Busy(p)
           THEN Rollback(p, "aplicar_interes_fiados_cliente", "OperationalError")
           ELSE IF ~FiadoChecks(f)
           THEN Rollback(p, "aplicar_interes_fiados_cliente", "IntegrityError")
           ELSE /\ writer' = p
                /\ txn' = [txn EXCEPT ![p].fiados[r.id] = f]
                /\ idx' = [idx EXCEPT ![p] = @ + 1]
                /\ pc' = [pc EXCEPT ![p] = IF idx[p] = Len(rows[p]) THEN "ai_commit" ELSE "ai_update"]
                /\ result' = NoResult
                /\ UNCHANGED <<reloj, db, commits, stale, args, rows>>

RECURSIVE SumInteresAplicado(_, _)
SumInteresAplicado(rs, porcentaje) ==
    IF rs = <<>> THEN 0
    ELSE (nuevo_monto_total(Head(rs).f, porcentaje) - Head(rs).f.monto_original)
         + SumInteresAplicado(Tail(rs), porcentaje)

\* the dict returned by aplicar_interes_fiados_cliente
AiResult(p) ==
    [cliente_id |-> args[p].id,
     porcentaje_aplicado |-> args[p].monto,
     fiados_actualizados |-> Len(rows[p]),
     total_interes_monto |-> SumInteresAplicado(rows[p], args[p].monto),
     detalle |-> [i \in 1..Len(rows[p]) |->
                    [fiado_id |-> rows[p][i].id,
                     interes_anterior |-> rows[p][i].f.interes_porcentaje,
                     interes_nuevo |-> nuevo_interes(rows[p][i].f, args[p].monto),
                     monto_total_anterior |-> rows[p][i].f.monto_total,
                     monto_total_nuevo |-> nuevo_monto_total(rows[p][i].f, args[p].monto),
                     saldo_nuevo |-> txn[p].fiados[rows[p][i].id].saldo_pendiente]]]

AiCommit(p) ==
    /\ pc[p] = "ai_commit"
    /\ db' = txn[p]
    /\ commits' = IF db' # db THEN commits + 1 ELSE commits
    /\ writer' = 0
    /\ stale' = StaleAfterCommit(p)
    /\ Finish(p, "aplicar_interes_fiados_cliente", "ok", "none", AiResult(p))

----------------------------------------------------------------------------
(* pagar_todos_fiados_cliente *)

\* abs(monto_total - total_pendiente) > 0.01, computed in binary floating
\* point: neither the amounts nor 0.01 are exact, so a difference of exactly
\* one cent comes out just above the float 0.01 (1.01 - 1.00) or just below
\* it (300.51 - 300.50); redondeo is the sign of that rounding error
NoCoincide(monto_total, total_pendiente, redondeo) ==
    LET d == monto_total - total_pendiente
        abs == IF d < 0 THEN -d ELSE d
    IN  abs > Tolerancia \/ (abs = Tolerancia /\ redondeo > 0)

\* BEGIN TRANSACTION, SELECT of the open fiados, "if not fiados", the total check
PtSelect(p, cliente_id, monto_total) ==
    /\ pc[p] = "idle"
    /\ Budget
    /\ LET inp == [id |-> cliente_id, monto |-> monto_total]
           fiados == OrdenPorFecha(FiadosAbiertos(db, cliente_id, 1))
       IN  IF fiados = <<>>
           THEN Rollback(p, "pagar_todos_fiados_cliente", "ValueError: sin fiados")
           ELSE \E redondeo \in {-1, 1} :
                IF NoCoincide(monto_total, SumSaldo(fiados), redondeo)
                THEN Rollback(p, "pagar_todos_fiados_cliente", "ValueError: no coincide")
                ELSE /\ pc' = [pc EXCEPT ![p] = "pt_insert"]
                     /\ args' = [args EXCEPT ![p] = inp]
                     /\ txn' = [txn EXCEPT ![p] = db]
                     /\ rows' = [rows EXCEPT ![p] = fiados]
                     /\ idx' = [idx EXCEPT ![p] = 1]
                     /\ stale' = [stale EXCEPT ![p] = FALSE]
                     /\ result' = NoResult
                     /\ UNCHANGED <<reloj, db, commits, writer>>

\* the INSERT as it would be with the amount entered for the whole payoff
PtInsertMontoTotal(p) ==
    /\ pc[p] = "pt_insert"
    /\ LET r == rows[p][idx[p]]
       IN  IF Busy(p)
           THEN Rollback(p, "pagar_todos_fiados_cliente", "OperationalError")
           ELSE IF ~PagoChecks([monto |-> args[p].monto])
           THEN Rollback(p, "pagar_todos_fiados_cliente", "IntegrityError")
           ELSE /\ writer' = p
                /\ txn' = [txn EXCEPT ![p] = InsertPago(@, r.id, args[p].monto)]
                /\ pc' = [pc EXCEPT ![p] = "pt_update"]
                /\ result' = NoResult
                /\ UNCHANGED <<reloj, db, commits, stale, args, rows, idx>>

\* INSERT INTO pagos_fiados (fiado['id'], fiado['saldo_pendiente'], ...)
PtInsert(p) ==
    /\ pc[p] = "pt_insert"
    /\ LET r == rows[p][idx[p]]
       IN  IF Busy(p)
           THEN Rollback(p, "pagar_todos_fiados_cliente", "OperationalError")
           ELSE IF ~PagoChecks([monto |-> r.f.saldo_pendiente])
           THEN Rollback(p, "pagar_todos_fiados_cliente", "IntegrityError")
           ELSE /\ writer' = p
                /\ txn' = [txn EXCEPT ![p] = InsertPago(@, r.id, r.f.saldo_pendiente)]
                /\ pc' = [pc EXCEPT ![p] = "pt_update"]
                /\ result' = NoResult
                /\ UNCHANGED <<reloj, db, commits, stale, args, rows, idx>>

\* UPDATE fiados SET monto_pagado = monto_total, saldo_pendiente = 0, estado = 'Pagado', fecha_pago
FiadoSaldado(old) ==
    [old EXCEPT !.monto_pagado = old.monto_total,
                !.saldo_pendiente = 0,
                !.estado = PAGADO,
                !.fecha_pago = TRUE]

\* PtUpdate as it would be if other connections saw each statement at once
PtUpdateVisible(p) ==
    /\ pc[p] = "pt_update"
    /\ LET r == rows[p][idx[p]]
       IN  /\ txn' = [txn EXCEPT ![p].fiados[r.id] = FiadoSaldado(@)]
           /\ db' = txn'[p]
           /\ idx' = [idx EXCEPT ![p] = @ + 1]
           /\ pc' = [pc EXCEPT ![p] = IF idx[p] = Len(rows[p]) THEN "pt_commit" ELSE "pt_insert"]
           /\ result' = NoResult
           /\ UNCHANGED <<reloj, commits, writer, stale, args, rows>>

PtUpdate(p) ==
    /\ pc[p] = "pt_update"
    /\ LET r == rows[p][idx[p]]
       IN  /\ txn' = [txn EXCEPT ![p].fiados[r.id] = FiadoSaldado(@)]
           /\ idx' = [idx EXCEPT ![p] = @ + 1]
           /\ pc' = [pc EXCEPT ![p] = IF idx[p] = Len(rows[p]) THEN "pt_commit" ELSE "pt_insert"]
           /\ result' = NoResult
           /\ UNCHANGED <<reloj, db, commits, writer, stale, args, rows>>

\* the dict returned by pagar_todos_fiados_cliente
PtResult(p) ==
    [cliente_id |-> args[p].id,
     total_pagado |-> args[p].monto,
     cantidad_fiados |-> Len(rows[p]),
     fiados_pagados |-> [i \in 1..Len(rows[p]) |->
                           [fiado_id |-> rows[p][i].id,
                            monto_pagado |-> rows[p][i].f.saldo_pendiente,
                            estado_anterior |-> rows[p][i].f.estado]]]

PtCommit(p) ==
    /\ pc[p] = "pt_commit"
    /\ db' = txn[p]
    /\ commits' = IF db' # db THEN commits + 1 ELSE commits
    /\ writer' = 0
    /\ stale' = StaleAfterCommit(p)
    /\ Finish(p, "pagar_todos_fiados_cliente", "ok", "none", PtResult(p))

----------------------------------------------------------------------------
(* Specifications *)

\* the steps that continue a call already under way
Continue(p) ==
    \/ RpInsert(p)
    \/ RpUpdate(p)
    \/ RpCommit(p)
    \/ MfUpdate(p)
    \/ EfDelete(p)
    \/ AiUpdate(p)
    \/ AiCommit(p)
    \/ PtInsert(p)
    \/ PtUpdate(p)
    \/ PtCommit(p)

\* a new call by p with arguments from the sets of E; the amount of a bulk
\* payoff is entered next to the total the client owes
Call(p, E) ==
    \/ \E n \in E.nombres : AgregarCliente(p, n)
    \/ \E c \in ClienteIds, m \in E.montosFiado, i \in E.intereses : AgregarFiado(p, c, m, i)
    \/ \E f \in FiadoIds, m \in E.montosPago : RpSelect(p, f, m)
    \/ \E f \in FiadoIds, m \in E.montosModificar : MfSelect(p, f, m)
    \/ \E f \in FiadoIds : EfSelect(p, f)
    \/ \E c \in ClienteIds, i \in E.porcentajes : AiSelect(p, c, i)
    \/ \E c \in ClienteIds, d \in E.deltasPagoTotal :
          PtSelect(p, c, SumSaldo(FiadosAbiertos(db, c, 1)) + d)

\* Sequential use: one caller, each call runs to its end before the next
EntradasSeq ==
    [nombres |-> { <<"a", "b">>, <<" ", "a", "b">>, <<"a">> },
     montosFiado |-> {-1000, 0, 10, 1000},
     intereses |-> {-5, 0, 5},
     montosPago |-> {-1000, 0, 4, 10, 990, 1000},
     montosModificar |-> {1000, 2004},
     porcentajes |-> {-5, 5},
     deltasPagoTotal |-> {-11, 0, 10}]

NextSeq == Call(1, EntradasSeq) \/ Continue(1)

SpecSeq == Init /\ [][NextSeq]_vars

\* Concurrent use: every caller may start a call or take the next step of its
\* own call at any time
EntradasConc ==
    [nombres |-> { <<"a", "b">> },
     montosFiado |-> {1000000},
     intereses |-> {0},
     montosPago |-> {400000, 1000000},
     montosModificar |-> {2000000},
     porcentajes |-> {5},
     deltasPagoTotal |-> {0}]

Next == \E p \in Procs : Call(p, EntradasConc) \/ Continue(p) \/ BusyTimeout(p) \/ StorageError(p)

Spec == Init /\ [][Next]_vars

\* The ledger of the test suite: one fiado of 3500 at 10 %, paid by concurrent
\* callers
EntradasPagos ==
    [nombres |-> { <<"a", "b">> },
     montosFiado |-> {3500000},
     intereses |-> {10},
     montosPago |-> {0, 4, 1000, 1000000, 2849990, 2850000}]

CallPagos(p, E) ==
    \/ \E n \in E.nombres : AgregarCliente(p, n)
    \/ \E c \in ClienteIds, m \in E.montosFiado, i \in E.intereses : AgregarFiado(p, c, m, i)
    \/ \E f \in FiadoIds, m \in E.montosPago : RpSelect(p, f, m)

NextPagos ==
    \E p \in Procs :
        \/ CallPagos(p, EntradasPagos)
        \/ RpInsert(p)
        \/ RpUpdate(p)
        \/ RpCommit(p)
        \/ StorageError(p)

SpecPagos == Init /\ [][NextPagos]_vars

\* The bulk payoff scenario: fiados of 100.00 and 200.50 of one client, paid
\* one by one or all at once by concurrent callers
EntradasSaldar ==
    [nombres |-> { <<"a", "b">> },
     montosFiado |-> {100000, 200500},
     intereses |-> {0},
     montosPago |-> {100000},
     montosModificar |-> {200500},
     porcentajes |-> {5},
     deltasPagoTotal |-> {0}]

NextSaldar ==
    \E p \in Procs : Call(p, EntradasSaldar) \/ Continue(p) \/ BusyTimeout(p) \/ StorageError(p)

SpecSaldar == Init /\ [][NextSaldar]_vars

\* The same ledger used by one caller, who enters the payoff total exactly,
\* one cent above it or two cents below it
EntradasSaldarSeq == [EntradasSaldar EXCEPT !.deltasPagoTotal = {-20, 0, 10}]

NextSaldarSeq == Call(1, EntradasSaldarSeq) \/ Continue(1)

SpecSaldarSeq == Init /\ [][NextSaldarSeq]_vars

\* Payments and batch operations by concurrent callers: one fiado of 1000.00
\* per alta, partial payments of 400.00, 5 % interest and the bulk payoff
EntradasLotes ==
    [nombres |-> { <<"a", "b">> },
     montosFiado |-> {1000000},
     intereses |-> {0},
     montosPago |-> {400000},
     porcentajes |-> {5},
     deltasPagoTotal |-> {0}]

CallLotes(p, E) ==
    \/ CallPagos(p, E)
    \/ \E c \in ClienteIds, i \in E.porcentajes : AiSelect(p, c, i)
    \/ \E c \in ClienteIds, d \in E.deltasPagoTotal :
          PtSelect(p, c, SumSaldo(FiadosAbiertos(db, c, 1)) + d)

NextLotes ==
    \E p \in Procs :
        \/ CallLotes(p, EntradasLotes)
        \/ RpInsert(p)
        \/ RpUpdate(p)
        \/ RpCommit(p)
        \/ AiUpdate(p)
        \/ AiCommit(p)
        \/ PtInsert(p)
        \/ PtUpdate(p)
        \/ PtCommit(p)
        \/ StorageError(p)

SpecLotes == Init /\ [][NextLotes]_vars

\* The local clock: a second passes
Tic ==
    /\ reloj < MaxReloj
    /\ reloj' = reloj + 1
    /\ UNCHANGED <<db, commits, writer, stale, pc, args, txn, rows, idx, result>>

\* The local clock is set back: the end of daylight saving time, or a
\* correction of the system clock
Retroceso ==
    /\ reloj > 0
    /\ reloj' = reloj - 1
    /\ UNCHANGED <<db, commits, writer, stale, pc, args, txn, rows, idx, result>>

\* The same ledger used by one caller while the local clock runs
NextOrden == Call(1, EntradasSaldar) \/ Continue(1) \/ Tic \/ Retroceso

SpecOrden == Init /\ [][NextOrden]_vars

\* One caller pays, is refused, pays off and reads the payment history while
\* the local clock runs
EntradasHistorial ==
    [nombres |-> { <<"a", "b">> },
     montosFiado |-> {1000000},
     intereses |-> {0},
     montosPago |-> {0, 400000},
     montosModificar |-> {2000000},
     porcentajes |-> {5},
     deltasPagoTotal |-> {0}]

NextHistorial ==
    \/ Call(1, EntradasHistorial)
    \/ Continue(1)
    \/ \E f \in FiadoIds : ObtenerHistorialFiado(1, f)
    \/ Tic
    \/ Retroceso

SpecHistorial == Init /\ [][NextHistorial]_vars

\* A ledger with two clients: one caller registers clients under names that
\* differ, repeat or differ only by surrounding blanks, and works on their fiados
EntradasClientes ==
    [nombres |-> { <<"a", "b">>, <<" ", "a", "b">>, <<"a", "b", " ">>, <<"c", "d">>, <<"a">> },
     montosFiado |-> {1000000},
     intereses |-> {0},
     montosPago |-> {400000, 1000000},
     montosModificar |-> {2000000},
     porcentajes |-> {5},
     deltasPagoTotal |-> {0}]

NextClientes == Call(1, EntradasClientes) \/ Continue(1)

SpecClientes == Init /\ [][NextClientes]_vars

\* Database() over the file that an earlier run left in the home directory:
\* _init_database creates the tables only if they do not exist, so the ledger
\* starts with the rows already stored, here one client with one fiado of
\* 1000.00 without interest
LibroGuardado ==
    InsertFiado([EmptyDb EXCEPT !.clientes = << <<"a", "b">> >>],
                [cliente_id |-> 1,
                 monto_original |-> 1000000,
                 interes_porcentaje |-> 0,
                 monto_total |-> 1000000,
                 monto_pagado |-> 0,
                 saldo_pendiente |-> 1000000,
                 estado |-> PENDIENTE,
                 fecha_creacion |-> 0,
                 fecha_pago |-> FALSE])

InitGuardado ==
    /\ db = LibroGuardado
    /\ commits = 0
    /\ writer = 0
    /\ stale = [p \in Procs |-> FALSE]
    /\ pc = [p \in Procs |-> "idle"]
    /\ args = [p \in Procs |-> NoArgs]
    /\ txn = [p \in Procs |-> EmptyDb]
    /\ rows = [p \in Procs |-> <<>>]
    /\ idx = [p \in Procs |-> 0]
    /\ result = NoResult
    /\ reloj = 0

\* Concurrent use of the stored ledger: payments, an edit that lowers the
\* total, interest and the bulk payoff
EntradasGuardado ==
    [nombres |-> { <<"a", "b">> },
     montosFiado |-> {1000000},
     intereses |-> {0},
     montosPago |-> {400000, 500000},
     montosModificar |-> {700000},
     porcentajes |-> {5},
     deltasPagoTotal |-> {0}]

NextGuardado ==
    \E p \in Procs : Call(p, EntradasGuardado) \/ Continue(p) \/ BusyTimeout(p) \/ StorageError(p)

SpecGuardado == InitGuardado /\ [][NextGuardado]_vars

----------------------------------------------------------------------------
(* Properties *)

Fiados == DOMAIN db.fiados

RECURSIVE SumPagos(_, _)
SumPagos(pagos, fiado_id) ==
    IF pagos = <<>> THEN 0
    ELSE (IF Head(pagos).fiado_id = fiado_id THEN Head(pagos).monto ELSE 0)
         + SumPagos(Tail(pagos), fiado_id)

Rank(estado) == IF estado = PENDIENTE THEN 0 ELSE IF estado = PARCIAL THEN 1 ELSE 2

RpSteps == {"rp_insert", "rp_update", "rp_commit"}

\* C1: of two concurrent payments on a fiado, one that has written validated
\* its amount against the balance that is committed at that moment (the other
\* saw that balance or failed), and monto_pagado never exceeds monto_total
C1_PagosSerializados ==
    /\ \A p \in Procs :
          pc[p] \in {"rp_update", "rp_commit"} =>
              /\ args[p].id \in Fiados
              /\ rows[p][1].f = db.fiados[args[p].id]
    /\ \A f \in Fiados : db.fiados[f].monto_pagado <= db.fiados[f].monto_total

\* C1 witness: a payment failed on SQLITE_BUSY after the payment of another
\* caller on the same fiado was committed
C1_Witness ==
    /\ result.op = "registrar_pago_fiado"
    /\ result.causa = "OperationalError"
    /\ result.val = "rp_insert"
    /\ Len(db.pagos) = 1

\* C2 (as stated): every fiado has saldo_pendiente = round2(monto_total -
\* monto_pagado) and saldo_pendiente >= 0
C2_SaldoDerivado ==
    \A f \in Fiados :
        /\ db.fiados[f].saldo_pendiente = Round2(db.fiados[f].monto_total - db.fiados[f].monto_pagado)
        /\ db.fiados[f].saldo_pendiente >= 0

\* C3 (as stated): estado is Pagado iff saldo_pendiente <= 0.01, Pendiente iff
\* monto_pagado = 0, and Parcial otherwise
C3_EstadoDerivado ==
    \A f \in Fiados :
        /\ db.fiados[f].estado = PAGADO <=> db.fiados[f].saldo_pendiente <= Tolerancia
        /\ db.fiados[f].estado = PENDIENTE <=> db.fiados[f].monto_pagado = 0
        /\ db.fiados[f].estado = PARCIAL <=>
              (db.fiados[f].saldo_pendiente > Tolerancia /\ db.fiados[f].monto_pagado # 0)

\* C4 (as stated): monto_total > 0 and monto_total = round2(monto_original *
\* (1 + interes_porcentaje / 100)) for the stored principal and interest
C4_MontoTotalDerivado ==
    \A f \in Fiados :
        /\ db.fiados[f].monto_total > 0
        /\ db.fiados[f].monto_total =
              Round2Q(db.fiados[f].monto_original * (100 + db.fiados[f].interes_porcentaje), 100)

\* C5 (as stated): the payments of a fiado add up to its monto_pagado
C5_PagosSumanPagado ==
    \A f \in Fiados : SumPagos(db.pagos, f) = db.fiados[f].monto_pagado

\* C6: no step moves the estado of a fiado backward along Pendiente ->
\* Parcial -> Pagado
C6_EstadoMonotono ==
    [][\A f \in Fiados \cap DOMAIN db'.fiados :
          Rank(db'.fiados[f].estado) >= Rank(db.fiados[f].estado)]_vars

\* C6 witness: a fiado that is Pagado after two payments, the first partial
C6_Witness ==
    \E f \in Fiados :
        /\ db.fiados[f].estado = PAGADO
        /\ Cardinality({i \in 1..Len(db.pagos) : db.pagos[i].fiado_id = f}) = 2

\* C7: a step of registrar_pago_fiado either commits the payment row together
\* with the new monto_pagado, saldo_pendiente and estado, or leaves the store
\* as it was: a call that fails, at whatever step, leaves nothing behind
C7_PagoAtomico ==
    [][\A p \in Procs :
          (pc[p] \in RpSteps /\ pc'[p] # pc[p]) =>
              IF result'.op = "registrar_pago_fiado" /\ result'.status = "ok"
              THEN /\ db'.pagos = Append(db.pagos, [id |-> db.lastPago + 1,
                                                    fiado_id |-> args[p].id,
                                                    monto |-> args[p].monto,
                                                    fecha_pago |-> reloj])
                   /\ db'.fiados[args[p].id].monto_pagado =
                         Round2(db.fiados[args[p].id].monto_pagado + args[p].monto)
                   /\ db'.fiados[args[p].id].saldo_pendiente <= db.fiados[args[p].id].saldo_pendiente
                   /\ db'.fiados[args[p].id].estado \in {PARCIAL, PAGADO}
                   /\ \A f \in Fiados \ {args[p].id} : db'.fiados[f] = db.fiados[f]
              ELSE db' = db]_vars

\* C7 witness: the call failed after its payment row had been inserted
C7_Witness ==
    /\ result.op = "registrar_pago_fiado"
    /\ result.causa = "StorageError"
    /\ result.val \in {"rp_update", "rp_commit"}
    /\ db.pagos = <<>>

\* C8 (as stated): a payment above the persisted saldo_pendiente is rejected
\* at the check, whatever the excess, and a payment of exactly saldo_pendiente
\* on an open fiado passes the check and is accepted
C8_SaldoExacto ==
    [][/\ \A f \in Fiados, m \in EntradasSeq.montosPago :
             (RpSelect(1, f, m) /\ m > db.fiados[f].saldo_pendiente) =>
                 (result'.status = "DatabaseError" /\ pc'[1] = "idle" /\ db' = db)
       /\ \A f \in Fiados :
             (RpSelect(1, f, db.fiados[f].saldo_pendiente) /\ db.fiados[f].estado # PAGADO) =>
                 pc'[1] = "rp_insert"
       /\ (/\ pc[1] \in RpSteps
           /\ pc'[1] = "idle"
           /\ args[1].monto = db.fiados[args[1].id].saldo_pendiente) =>
                 result'.status = "ok"]_vars

C10_PagadoRechazaPago ==
    [][\A p \in Procs, f \in Fiados, m \in EntradasPagos.montosPago :
          (RpSelect(p, f, m) /\ db.fiados[f].estado = PAGADO) =>
              /\ result'.op = "registrar_pago_fiado"
              /\ result'.status = "DatabaseError"
              /\ pc'[p] = "idle"
              /\ db' = db]_vars

\* C10 witness: a payment was refused because the fiado is Pagado
C10_Witness ==
    /\ result.op = "registrar_pago_fiado"
    /\ result.causa = "ValueError: ya pagado"
    /\ \E f \in Fiados : db.fiados[f].estado = PAGADO

\* C11: with one caller, modificar_fiado and eliminar_fiado on a Pagado fiado
\* fail, and the fiado row and its payment rows stay as they were
C11_PagadoInmutable ==
    [][\A f \in Fiados :
          db.fiados[f].estado = PAGADO =>
              /\ \A m \in EntradasSeq.montosModificar :
                    MfSelect(1, f, m) =>
                        /\ result'.op = "modificar_fiado"
                        /\ result'.status = "DatabaseError"
                        /\ pc'[1] = "idle"
                        /\ db' = db
              /\ EfSelect(1, f) =>
                    /\ result'.op = "eliminar_fiado"
                    /\ result'.status = "DatabaseError"
                    /\ pc'[1] = "idle"
                    /\ db' = db]_vars

\* C11 witness: an edit of a Pagado fiado that has payments was refused
C11_Witness ==
    /\ result.op = "modificar_fiado"
    /\ result.causa = "DatabaseError: ya pagado"
    /\ \E f \in Fiados :
          /\ db.fiados[f].estado = PAGADO
          /\ SumPagos(db.pagos, f) > 0

\* C12 (as stated): a fiado that is Pagado in the store is never deleted or
\* edited by a step of eliminar_fiado or modificar_fiado, whatever payment ran
\* between their read and their write
C12_PagadoNoSeToca ==
    [][\A p \in Procs :
          (pc[p] \in {"mf_update", "ef_delete"} /\ pc'[p] = "idle") =>
              \A f \in Fiados :
                  db.fiados[f].estado = PAGADO =>
                      /\ f \in DOMAIN db'.fiados
                      /\ db'.fiados[f] = db.fiados[f]]_vars

\* C13 (as stated): an operation that writes does so on the rows it read, no
\* commit on them having come in between, and the saldo_pendiente that
\* modificar_fiado stores is monto minus the monto_pagado that is current
C13_LecturaVigente ==
    [][\A p \in Procs :
          (/\ pc[p] \in {"rp_commit", "mf_update", "ef_delete", "ai_commit", "pt_commit"}
           /\ pc'[p] = "idle"
           /\ result'.status = "ok") =>
              /\ \A i \in 1..Len(rows[p]) :
                    /\ rows[p][i].id \in Fiados
                    /\ db.fiados[rows[p][i].id] = rows[p][i].f
              /\ pc[p] = "mf_update" =>
                    db'.fiados[args[p].id].saldo_pendiente =
                        args[p].monto - db.fiados[args[p].id].monto_pagado]_vars

\* C14: a successful agregar_fiado(cliente_id, nombre, monto, interes) adds one
\* fiado, under the identifier it returns, with monto_total = round2(monto *
\* (1 + interes/100)), monto_pagado 0, saldo_pendiente = monto_total and estado
\* Pendiente, without payment rows, and changes nothing else
C14_AltaDeFiado ==
    [][\A p \in Procs, c \in ClienteIds, m \in EntradasPagos.montosFiado,
          i \in EntradasPagos.intereses :
          (/\ result'.op = "agregar_fiado"
           /\ result'.status = "ok"
           /\ AgregarFiado(p, c, m, i)) =>
              LET id == result'.val
                  total == Round2Q(m * (100 + i), 100)
              IN  /\ id \notin Fiados
                  /\ DOMAIN db'.fiados = Fiados \cup {id}
                  /\ \A f \in Fiados : db'.fiados[f] = db.fiados[f]
                  /\ db'.fiados[id].cliente_id = c
                  /\ db'.fiados[id].monto_original = m
                  /\ db'.fiados[id].interes_porcentaje = i
                  /\ db'.fiados[id].monto_total = total
                  /\ db'.fiados[id].monto_pagado = 0
                  /\ db'.fiados[id].saldo_pendiente = total
                  /\ db'.fiados[id].estado = PENDIENTE
                  /\ ~db'.fiados[id].fecha_pago
                  /\ db'.pagos = db.pagos
                  /\ SumPagos(db'.pagos, id) = 0
                  /\ db'.clientes = db.clientes]_vars

\* C14 witness: 3500 at 10 % was stored as 3850.00, Pendiente, and its
\* identifier returned
C14_Witness ==
    /\ result.op = "agregar_fiado"
    /\ result.status = "ok"
    /\ result.val \in Fiados
    /\ db.fiados[result.val].monto_original = 3500000
    /\ db.fiados[result.val].interes_porcentaje = 10
    /\ db.fiados[result.val].monto_total = 3850000
    /\ db.fiados[result.val].saldo_pendiente = 3850000
    /\ db.fiados[result.val].estado = PENDIENTE

\* C15: agregar_fiado with monto <= 0, or interes < 0, or a cliente_id that is
\* no client fails, and no fiado is stored: a call that succeeds is not one
\* with such arguments, and a call that fails leaves the store as it was
C15_AltaRechazada ==
    [][result'.op = "agregar_fiado" =>
          IF result'.status = "ok"
          THEN \A c \in ClienteIds, m \in EntradasSeq.montosFiado, i \in EntradasSeq.intereses :
                  (m <= 0 \/ i < 0 \/ c \notin 1..Len(db.clientes)) => ~AgregarFiado(1, c, m, i)
          ELSE result'.status = "DatabaseError" /\ db' = db]_vars

\* C15 witness: a fiado for an existing client was refused by a CHECK
\* constraint, after a fiado had been accepted
C15_Witness ==
    /\ result.op = "agregar_fiado"
    /\ result.causa = "IntegrityError: CHECK"
    /\ db.clientes # <<>>
    /\ Fiados # {}

\* C16: aplicar_interes_fiados_cliente(cliente, p) that commits sets, on every
\* open fiado of the client, interes_porcentaje to its previous value plus p
\* and monto_total to round2(monto_original * (1 + new interes / 100)), the
\* principal staying as it was: interest never compounds on monto_total
C16_InteresAditivo ==
    [][\A p \in Procs :
          (pc[p] = "ai_commit" /\ pc'[p] = "idle" /\ result'.status = "ok") =>
              \A f \in Fiados :
                  (db.fiados[f].cliente_id = args[p].id
                   /\ db.fiados[f].estado \in {PENDIENTE, PARCIAL}) =>
                      /\ f \in DOMAIN db'.fiados
                      /\ db'.fiados[f].interes_porcentaje =
                            db.fiados[f].interes_porcentaje + args[p].monto
                      /\ db'.fiados[f].monto_original = db.fiados[f].monto_original
                      /\ db'.fiados[f].monto_total =
                            Round2Q(db.fiados[f].monto_original
                                    * (100 + db'.fiados[f].interes_porcentaje), 100)]_vars

\* C16 witness: 1000 at 0 % is at 10 % and 1100.00 after 5 % was applied twice
C16_Witness ==
    /\ result.op = "aplicar_interes_fiados_cliente"
    /\ result.status = "ok"
    /\ \E f \in Fiados :
          /\ db.fiados[f].monto_original = 1000000
          /\ db.fiados[f].interes_porcentaje = 10
          /\ db.fiados[f].monto_total = 1100000

\* C17 (as stated): aplicar_interes_fiados_cliente changes no estado and no
\* monto_pagado and no payment row, and the saldo_pendiente it stores is the
\* new monto_total minus the amount collected
C17_InteresConservaCobrado ==
    [][\A p \in Procs :
          (pc[p] = "ai_commit" /\ pc'[p] = "idle" /\ result'.status = "ok") =>
              /\ db'.pagos = db.pagos
              /\ DOMAIN db'.fiados = Fiados
              /\ \A f \in Fiados :
                    /\ db'.fiados[f].estado = db.fiados[f].estado
                    /\ db'.fiados[f].monto_pagado = db.fiados[f].monto_pagado
                    /\ (db.fiados[f].cliente_id = args[p].id
                        /\ db.fiados[f].estado \in {PENDIENTE, PARCIAL}) =>
                           db'.fiados[f].saldo_pendiente =
                               db'.fiados[f].monto_total - db.fiados[f].monto_pagado]_vars

\* C18: aplicar_interes_fiados_cliente is all or nothing: when the UPDATE of
\* one of the client's open fiados fails, the call raises DatabaseError and
\* no fiado is changed, the ones updated earlier in the loop included; when
\* it commits, every open fiado of the client carries the new interest
C18_InteresTodoONada ==
    [][(pc[1] \in {"ai_update", "ai_commit"} /\ pc'[1] = "idle") =>
          IF result'.status = "ok"
          THEN \A i \in 1..Len(rows[1]) :
                  db'.fiados[rows[1][i].id].interes_porcentaje =
                      rows[1][i].f.interes_porcentaje + args[1].monto
          ELSE /\ result'.status = "DatabaseError"
               /\ db' = db]_vars

\* C18 witness: the client has two open fiados, at 5 % and at 0 %; -5 % was
\* accepted by the first and refused by the second, and both are as before
C18_Witness ==
    /\ result.op = "aplicar_interes_fiados_cliente"
    /\ result.causa = "IntegrityError"
    /\ Fiados = {1, 2}
    /\ db.fiados[1].cliente_id = db.fiados[2].cliente_id
    /\ db.fiados[1].estado = PENDIENTE /\ db.fiados[1].interes_porcentaje = 5
    /\ db.fiados[1].monto_total = 1050
    /\ db.fiados[2].estado = PENDIENTE /\ db.fiados[2].interes_porcentaje = 0

\* C19: aplicar_interes_fiados_cliente and pagar_todos_fiados_cliente for a
\* client with no Pendiente or Parcial fiado (none at all, or only Pagado ones)
\* raise DatabaseError, change no fiado and insert no payment
C19_SinFiadosAbiertos ==
    [][\A c \in ClienteIds :
          (/\ pc[1] = "idle"
           /\ \/ pc'[1] \in {"ai_update", "pt_insert"}
              \/ result'.op \in {"aplicar_interes_fiados_cliente", "pagar_todos_fiados_cliente"}
           /\ \A f \in Fiados : db.fiados[f].cliente_id = c => db.fiados[f].estado = PAGADO) =>
              /\ \A i \in EntradasSeq.porcentajes :
                    AiSelect(1, c, i) =>
                        /\ result'.op = "aplicar_interes_fiados_cliente"
                        /\ result'.status = "DatabaseError"
                        /\ pc'[1] = "idle"
                        /\ db' = db
              /\ \A d \in EntradasSeq.deltasPagoTotal :
                    PtSelect(1, c, d) =>
                        /\ result'.op = "pagar_todos_fiados_cliente"
                        /\ result'.status = "DatabaseError"
                        /\ pc'[1] = "idle"
                        /\ db' = db]_vars

\* C19 witness: the bulk payoff was refused for lack of open fiados while the
\* ledger holds a Pagado fiado with its payment
C19_Witness ==
    /\ result.op = "pagar_todos_fiados_cliente"
    /\ result.causa = "ValueError: sin fiados"
    /\ \E f \in Fiados : db.fiados[f].estado = PAGADO /\ SumPagos(db.pagos, f) > 0
    /\ \A f \in Fiados : db.fiados[f].estado = PAGADO

\* C20: pagar_todos_fiados_cliente that commits has inserted, for every fiado
\* of the client that was Pendiente or Parcial, exactly one payment of that
\* fiado's saldo_pendiente, and has left each of them with monto_pagado =
\* monto_total, saldo_pendiente = 0, estado Pagado and fecha_pago set; the
\* balances are the ones the call read, and nothing else is changed
C20_SaldaCadaFiado ==
    [][\A p \in Procs :
          (pc[p] = "pt_commit" /\ pc'[p] = "idle" /\ result'.status = "ok") =>
              LET abiertos == {f \in Fiados : /\ db.fiados[f].cliente_id = args[p].id
                                              /\ db.fiados[f].estado \in {PENDIENTE, PARCIAL}}
                  nuevos == SubSeq(db'.pagos, Len(db.pagos) + 1, Len(db'.pagos))
              IN  /\ SubSeq(db'.pagos, 1, Len(db.pagos)) = db.pagos
                  /\ Len(nuevos) = Cardinality(abiertos)
                  /\ abiertos = {rows[p][i].id : i \in 1..Len(rows[p])}
                  /\ \A i \in 1..Len(rows[p]) :
                        /\ nuevos[i].fiado_id = rows[p][i].id
                        /\ nuevos[i].monto = rows[p][i].f.saldo_pendiente
                        /\ nuevos[i].monto = db.fiados[rows[p][i].id].saldo_pendiente
                  /\ DOMAIN db'.fiados = Fiados
                  /\ \A f \in Fiados :
                        db'.fiados[f] =
                            IF f \in abiertos
                            THEN [db.fiados[f] EXCEPT !.monto_pagado = db.fiados[f].monto_total,
                                                      !.saldo_pendiente = 0,
                                                      !.estado = PAGADO,
                                                      !.fecha_pago = TRUE]
                            ELSE db.fiados[f]]_vars

\* C20 witness: balances 100.00 and 200.50 were paid off with 300.50: two
\* payments of 100.00 and 200.50 and two Pagado fiados
C20_Witness ==
    /\ result.op = "pagar_todos_fiados_cliente"
    /\ result.status = "ok"
    /\ result.val.total_pagado = 300500
    /\ Fiados = {1, 2}
    /\ \A f \in Fiados : db.fiados[f].estado = PAGADO /\ db.fiados[f].fecha_pago
                         /\ db.fiados[f].saldo_pendiente = 0
    /\ db.fiados[1].monto_pagado = 100000
    /\ db.fiados[2].monto_pagado = 200500
    /\ Len(db.pagos) = 2
    /\ db.pagos[1].fiado_id = 1 /\ db.pagos[1].monto = 100000
    /\ db.pagos[2].fiado_id = 2 /\ db.pagos[2].monto = 200500

\* C21 (as stated): pagar_todos_fiados_cliente for a client with open fiados
\* goes ahead if and only if the amount entered differs from the sum of their
\* saldo_pendiente by at most 0.01; any larger difference is refused
C21_ToleranciaDelTotal ==
    [][\A c \in ClienteIds, d \in EntradasSeq.deltasPagoTotal :
          (/\ pc[1] = "idle"
           /\ \/ pc'[1] = "pt_insert"
              \/ result'.op = "pagar_todos_fiados_cliente"
           /\ FiadosAbiertos(db, c, 1) # <<>>
           /\ PtSelect(1, c, SumSaldo(FiadosAbiertos(db, c, 1)) + d)) =>
              IF d >= -Tolerancia /\ d <= Tolerancia
              THEN pc'[1] = "pt_insert"
              ELSE /\ result'.status = "DatabaseError"
                   /\ result'.causa = "ValueError: no coincide"
                   /\ db' = db]_vars

\* C22 (as stated): with open balances of 100.00 and 200.50, the bulk payoff
\* entered as 300.51 is refused and no fiado or payment row changes
C22_Rechaza30051 ==
    [][\A c \in ClienteIds :
          (/\ pc[1] = "idle"
           /\ \/ pc'[1] = "pt_insert"
              \/ result'.op = "pagar_todos_fiados_cliente"
           /\ Len(FiadosAbiertos(db, c, 1)) = 2
           /\ FiadosAbiertos(db, c, 1)[1].f.saldo_pendiente = 100000
           /\ FiadosAbiertos(db, c, 1)[2].f.saldo_pendiente = 200500
           /\ PtSelect(1, c, 300510)) =>
              /\ result'.status = "DatabaseError"
              /\ result'.causa = "ValueError: no coincide"
              /\ db' = db]_vars

\* C23: pagar_todos_fiados_cliente is all or nothing: when a statement of the
\* loop or the COMMIT fails, the call raises DatabaseError, no fiado is marked
\* Pagado and no payment of the call remains; when it commits, every fiado it
\* selected is Pagado and has its payment
C23_PagoTotalTodoONada ==
    [][\A p \in Procs :
          (pc[p] \in {"pt_insert", "pt_update", "pt_commit"} /\ pc'[p] = "idle") =>
              IF result'.status = "ok"
              THEN /\ Len(db'.pagos) = Len(db.pagos) + Len(rows[p])
                   /\ \A i \in 1..Len(rows[p]) :
                         db'.fiados[rows[p][i].id].estado = PAGADO
              ELSE /\ result'.status = "DatabaseError"
                   /\ db' = db]_vars

\* C23 witness: the payoff of two open fiados failed at the COMMIT, after both
\* payments had been inserted and both fiados updated; both are still
\* Pendiente and there is no payment
C23_Witness ==
    /\ result.op = "pagar_todos_fiados_cliente"
    /\ result.status = "DatabaseError"
    /\ result.val = "pt_commit"
    /\ Fiados = {1, 2}
    /\ db.fiados[1].cliente_id = db.fiados[2].cliente_id
    /\ \A f \in Fiados : db.fiados[f].estado = PENDIENTE
    /\ db.pagos = <<>>

\* C24 (as stated): pagar_todos_fiados_cliente pays the client's open fiados
\* in the order of their creation, which is the order of their ids: in the
\* payments it inserts and in the breakdown it returns, a fiado created
\* earlier comes before a fiado created later
C24_OrdenDeCreacion ==
    [][(pc[1] = "pt_commit" /\ pc'[1] = "idle" /\ result'.status = "ok") =>
          LET nuevos == SubSeq(db'.pagos, Len(db.pagos) + 1, Len(db'.pagos))
              detalle == result'.val.fiados_pagados
          IN  /\ \A i, j \in 1..Len(nuevos) :
                    i < j => nuevos[i].fiado_id < nuevos[j].fiado_id
              /\ \A i, j \in 1..Len(detalle) :
                    i < j => detalle[i].fiado_id < detalle[j].fiado_id]_vars

\* C25 (as stated): modificar_fiado that succeeds on an open fiado leaves
\* monto_pagado, estado and the payment rows as they were, stores a monto_total
\* recomputed from the new principal (monto_original at the stored interest)
\* and stores saldo_pendiente = new monto_total - monto_pagado
C25_EdicionConservaCobrado ==
    [][\A p \in Procs :
          (/\ pc[p] = "mf_update" /\ pc'[p] = "idle" /\ result'.status = "ok"
           /\ args[p].id \in Fiados) =>
              LET old == db.fiados[args[p].id]
                  new == db'.fiados[args[p].id]
              IN  /\ new.monto_pagado = old.monto_pagado
                  /\ new.estado = old.estado
                  /\ db'.pagos = db.pagos
                  /\ new.monto_total =
                        Round2Q(new.monto_original * (100 + new.interes_porcentaje), 100)
                  /\ new.saldo_pendiente = new.monto_total - new.monto_pagado]_vars

BatchPcs == {"ai_update", "ai_commit", "pt_insert", "pt_update", "pt_commit"}

\* C26: what other connections can read (the committed rows) never holds part
\* of a batch of aplicar_interes_fiados_cliente or pagar_todos_fiados_cliente:
\* while the batch holds the write lock the committed rows of its fiados are
\* the ones it selected and none of its payments is there; every step of the
\* batch but the COMMIT leaves the committed rows alone, and the COMMIT
\* publishes the update of every selected fiado and every payment at once
C26_LoteInvisible ==
    [][\A p \in Procs :
          (pc[p] \in BatchPcs /\ (pc'[p] # pc[p] \/ idx'[p] # idx[p])) =>
              /\ writer = p =>
                    /\ db.pagos = SubSeq(txn[p].pagos, 1, Len(db.pagos))
                    /\ \A i \in 1..Len(rows[p]) :
                          /\ rows[p][i].id \in Fiados
                          /\ db.fiados[rows[p][i].id] = rows[p][i].f
              /\ IF pc[p] \in {"ai_commit", "pt_commit"} /\ result'.status = "ok"
                 THEN /\ \A i \in 1..Len(rows[p]) :
                            /\ db'.fiados[rows[p][i].id] = txn[p].fiados[rows[p][i].id]
                            /\ db'.fiados[rows[p][i].id] # db.fiados[rows[p][i].id]
                      /\ db'.pagos = txn[p].pagos
                      /\ Len(db'.pagos) = Len(db.pagos)
                            + (IF pc[p] = "pt_commit" THEN Len(rows[p]) ELSE 0)
                 ELSE db' = db]_vars

\* C26 witness: a bulk payoff of two fiados has inserted the payment of the
\* first and marked it Pagado, and has not committed: the committed rows show
\* both fiados open and no payment
C26_Witness ==
    \E p \in Procs :
        /\ pc[p] = "pt_insert"
        /\ idx[p] = 2
        /\ txn[p].fiados[rows[p][1].id].estado = PAGADO
        /\ Len(txn[p].pagos) = 1
        /\ db.fiados[rows[p][1].id].estado = PENDIENTE
        /\ db.fiados[rows[p][2].id].estado = PENDIENTE
        /\ db.pagos = <<>>

\* C27: with registrar_pago_fiado, aplicar_interes_fiados_cliente and
\* pagar_todos_fiados_cliente running concurrently, every COMMIT is the result
\* of running that call alone on the rows committed just before it (so the
\* committed calls are in a serial order, that of their commits): the rows the
\* call read are still the committed ones, the COMMIT adds the call's own
\* writes and nothing else, no payment committed earlier is lost, and the
\* payments of a fiado never add up to more than its monto_total
C27_LotesSerializados ==
    [][\A p \in Procs :
          (pc[p] \in {"rp_commit", "ai_commit", "pt_commit"} /\ pc'[p] = "idle"
           /\ result'.status = "ok") =>
              LET ids == {rows[p][i].id : i \in 1..Len(rows[p])}
              IN  /\ \A i \in 1..Len(rows[p]) :
                        /\ rows[p][i].id \in Fiados
                        /\ db.fiados[rows[p][i].id] = rows[p][i].f
                  /\ DOMAIN db'.fiados = Fiados
                  /\ \A f \in Fiados \ ids : db'.fiados[f] = db.fiados[f]
                  /\ SubSeq(db'.pagos, 1, Len(db.pagos)) = db.pagos
                  /\ \A i \in (Len(db.pagos) + 1)..Len(db'.pagos) :
                        db'.pagos[i].fiado_id \in ids
                  /\ \A f \in Fiados :
                        SumPagos(db'.pagos, f) <= db'.fiados[f].monto_total]_vars

\* C27 witness: a payment of 400.00 that had read the fiado was refused at its
\* first write because the bulk payoff committed in between; the fiado is
\* Pagado by the payoff's single payment of 1000.00
C27_Witness ==
    /\ result.op = "registrar_pago_fiado"
    /\ result.causa = "OperationalError"
    /\ \E f \in Fiados :
          /\ db.fiados[f].estado = PAGADO
          /\ db.fiados[f].monto_pagado = 1000000
          /\ SumPagos(db.pagos, f) = 1000000
          /\ Len(db.pagos) = 1

ReglasDeNegocio ==
    {"ValueError: no encontrado", "ValueError: ya pagado", "ValueError: excede saldo",
     "ValueError: sin fiados", "ValueError: no coincide",
     "DatabaseError: no encontrado", "DatabaseError: ya pagado"}

\* C28: a call that is refused on a business rule leaves clientes, fiados and
\* pagos_fiados as they were, and the rules do refuse: a call gets past its
\* checks only for a fiado that exists and is not Pagado (with an amount
\* within the balance, for a payment) or for a client with open fiados, and a
\* payment of zero or less is refused at its INSERT
C28_RechazoSinCambios ==
    [][/\ (result'.status = "DatabaseError" /\ result'.causa \in ReglasDeNegocio) => db' = db
       /\ (pc[1] = "rp_insert" /\ args[1].monto <= 0) =>
              /\ result'.op = "registrar_pago_fiado"
              /\ result'.status = "DatabaseError"
              /\ db' = db
       /\ (pc[1] = "idle" /\ pc'[1] \in {"rp_insert", "mf_update", "ef_delete"}) =>
              /\ args'[1].id \in Fiados
              /\ db.fiados[args'[1].id].estado # PAGADO
              /\ pc'[1] = "rp_insert" =>
                    args'[1].monto <= db.fiados[args'[1].id].saldo_pendiente
       /\ (pc[1] = "idle" /\ pc'[1] \in {"ai_update", "pt_insert"}) =>
              /\ FiadosAbiertos(db, args'[1].id, 1) # <<>>
              /\ pc'[1] = "pt_insert" =>
                    /\ args'[1].monto - SumSaldo(FiadosAbiertos(db, args'[1].id, 1)) <= Tolerancia
                    /\ SumSaldo(FiadosAbiertos(db, args'[1].id, 1)) - args'[1].monto <= Tolerancia]_vars

\* C28 witness: a payment of zero or less on an open fiado that already has a
\* payment was refused at its INSERT
C28_Witness ==
    /\ result.op = "registrar_pago_fiado"
    /\ result.status = "DatabaseError"
    /\ result.causa = "IntegrityError"
    /\ result.val = "rp_insert"
    /\ \E f \in Fiados : db.fiados[f].estado = PARCIAL /\ SumPagos(db.pagos, f) > 0

\* the class of the error that _get_connection raises for a failure of the
\* storage (sqlite3.Error)
ErrorDeAlmacenamiento == "DatabaseError"

\* the rejections of registrar_pago_fiado on its rules: fiado not found,
\* already Pagado, amount above the balance, amount of zero or less
RechazoDePago(r) ==
    /\ r.op = "registrar_pago_fiado"
    /\ \/ r.causa \in {"ValueError: no encontrado", "ValueError: ya pagado",
                       "ValueError: excede saldo"}
       \/ r.causa = "IntegrityError" /\ r.val = "rp_insert"

\* C29: a payment that registrar_pago_fiado refuses because the fiado does not
\* exist, is already Pagado, the amount exceeds the balance or the amount is
\* zero or less ends with an error of a kind other than the kind of a storage
\* failure, so that the caller can tell the two apart
C29_RechazoEsValidacion ==
    RechazoDePago(result) => result.status # ErrorDeAlmacenamiento

\* C30: the monto_pagado of a fiado never decreases: after every step of every
\* operation (payments accepted or refused, with any amount, and every other
\* operation of the ledger) each fiado that is still stored has a
\* monto_pagado at least as large as before the step
C30_PagadoNoDecrece ==
    [][\A f \in DOMAIN db.fiados \cap DOMAIN db'.fiados :
           db'.fiados[f].monto_pagado >= db.fiados[f].monto_pagado]_vars

\* C31: a fiado has a completion timestamp (fecha_pago) if and only if its
\* estado is Pagado, and the timestamp changes only in the step in which a
\* successful registrar_pago_fiado or pagar_todos_fiados_cliente moves the
\* fiado from an open estado to Pagado
C31_FechaPagoSiiPagado ==
    [][/\ \A f \in DOMAIN db'.fiados :
              db'.fiados[f].fecha_pago <=> db'.fiados[f].estado = PAGADO
       /\ \A f \in DOMAIN db.fiados \cap DOMAIN db'.fiados :
              db'.fiados[f].fecha_pago # db.fiados[f].fecha_pago =>
                  /\ db'.fiados[f].fecha_pago
                  /\ db.fiados[f].estado # PAGADO
                  /\ db'.fiados[f].estado = PAGADO
                  /\ result'.status = "ok"
                  /\ result'.op \in {"registrar_pago_fiado", "pagar_todos_fiados_cliente"}]_vars

\* C31 witness: a payment has just completed one fiado, which carries the
\* timestamp, while another fiado of the ledger is partially paid and has none
C31_Witness ==
    /\ result.op = "registrar_pago_fiado"
    /\ result.status = "ok"
    /\ \E f, g \in Fiados :
          /\ db.fiados[f].estado = PAGADO /\ db.fiados[f].fecha_pago
          /\ db.fiados[g].estado = PARCIAL /\ ~db.fiados[g].fecha_pago

\* the fiados that a successful aplicar_interes_fiados_cliente reports as updated
FiadosConInteresAplicado(r) ==
    IF r.op = "aplicar_interes_fiados_cliente" /\ r.status = "ok"
    THEN {r.val.detalle[i].fiado_id : i \in DOMAIN r.val.detalle}
    ELSE {}

\* C32: the interes_porcentaje of every fiado is >= 0 and is the interest given
\* at creation plus the percentages of the successful interest applications
\* that included the fiado: a step changes it only by adding the percentage of
\* a successful aplicar_interes_fiados_cliente that updated the fiado, and no
\* other operation changes it
C32_InteresAcumulado ==
    [][/\ \A f \in DOMAIN db'.fiados : db'.fiados[f].interes_porcentaje >= 0
       /\ \A f \in DOMAIN db.fiados \cap DOMAIN db'.fiados :
              db'.fiados[f].interes_porcentaje =
                  IF f \in FiadosConInteresAplicado(result')
                  THEN db.fiados[f].interes_porcentaje + result'.val.porcentaje_aplicado
                  ELSE db.fiados[f].interes_porcentaje]_vars

\* the interest that the call added according to its own detail: the sum of
\* monto_total_nuevo - monto_total_anterior
RECURSIVE SumAumento(_)
SumAumento(detalle) ==
    IF detalle = <<>> THEN 0
    ELSE (Head(detalle).monto_total_nuevo - Head(detalle).monto_total_anterior)
         + SumAumento(Tail(detalle))

\* C33: the total_interes_monto returned by a successful
\* aplicar_interes_fiados_cliente is the interest added by that call: the sum
\* over the updated fiados of new monto_total minus previous monto_total
C33_InteresAgregado ==
    (result.op = "aplicar_interes_fiados_cliente" /\ result.status = "ok") =>
        result.val.total_interes_monto = SumAumento(result.val.detalle)

RECURSIVE Reverse(_)
Reverse(rs) == IF rs = <<>> THEN <<>> ELSE Append(Reverse(Tail(rs)), Head(rs))

\* C34: obtener_historial_fiado returns exactly the payment rows stored for the
\* fiado (one per successful payment of registrar_pago_fiado or
\* pagar_todos_fiados_cliente, none for a refused one), the newest payment first
C34_HistorialMasRecientePrimero ==
    [][\A f \in FiadoIds :
          ObtenerHistorialFiado(1, f) => result'.val = Reverse(PagosDelFiado(db, f))]_vars

\* C35: agregar_cliente with a name that, after trimming, equals the name of a
\* client already stored fails and adds no client row; a call that succeeds
\* appends the trimmed name, so the names of the clients stay pairwise different
C35_NombreUnico ==
    [][/\ \A n \in EntradasClientes.nombres :
              (AgregarCliente(1, n) /\ \E i \in 1..Len(db.clientes) : db.clientes[i] = Strip(n)) =>
                  /\ result'.op = "agregar_cliente"
                  /\ result'.status = "DatabaseError"
                  /\ db' = db
       /\ \A i, j \in 1..Len(db'.clientes) : i # j => db'.clientes[i] # db'.clientes[j]]_vars

\* C35 witness: with two clients stored, a further agregar_cliente was refused
C35_Witness ==
    /\ Len(db.clientes) = 2
    /\ db.clientes[1] # db.clientes[2]
    /\ result.op = "agregar_cliente"
    /\ result.status = "DatabaseError"
    /\ result.causa = "IntegrityError: UNIQUE"

\* C36: every fiado whose estado is Pendiente or Parcial has a saldo_pendiente
\* above 0.01, so that a payment of exactly its balance can close it
C36_AbiertoConSaldo ==
    \A f \in Fiados :
        db.fiados[f].estado \in {PENDIENTE, PARCIAL} => db.fiados[f].saldo_pendiente > Tolerancia

\* C37: the preconditions of the bulk payoff are sufficient: a call of
\* pagar_todos_fiados_cliente for a client with at least one open fiado and an
\* entered amount within 0.01 of the sum of their saldo_pendiente gets past its
\* checks, and once past them it does not fail on a payment INSERT or on any
\* later statement
C37_SaldarSiempreProcede ==
    [][/\ pc[1] = "idle" =>
              \A c \in ClienteIds, d \in {-Tolerancia, 0, Tolerancia} :
                  (/\ FiadosAbiertos(db, c, 1) # <<>>
                   /\ PtSelect(1, c, SumSaldo(FiadosAbiertos(db, c, 1)) + d)) =>
                      pc'[1] = "pt_insert"
       /\ pc[1] \in {"pt_insert", "pt_update", "pt_commit"} =>
              result'.status # "DatabaseError"]_vars

\* the sum of the monto_pagado entries of the breakdown fiados_pagados
RECURSIVE SumDesglose(_)
SumDesglose(fiados_pagados) ==
    IF fiados_pagados = <<>> THEN 0
    ELSE Head(fiados_pagados).monto_pagado + SumDesglose(Tail(fiados_pagados))

\* the sum of the amounts of a sequence of payment rows
RECURSIVE SumMontos(_)
SumMontos(pagos) == IF pagos = <<>> THEN 0 ELSE Head(pagos).monto + SumMontos(Tail(pagos))

\* C38: the total_pagado returned by a successful pagar_todos_fiados_cliente
\* equals the sum of the monto_pagado entries of its breakdown, which equals
\* the sum of the payment rows that the call inserted
C38_TotalPagadoEsLaSuma ==
    [][(result'.op = "pagar_todos_fiados_cliente" /\ result'.status = "ok") =>
          LET nuevos == SubSeq(db'.pagos, Len(db.pagos) + 1, Len(db'.pagos))
          IN  /\ result'.val.total_pagado = SumDesglose(result'.val.fiados_pagados)
              /\ SumDesglose(result'.val.fiados_pagados) = SumMontos(nuevos)]_vars

\* C39: modificar_fiado on a Pendiente or Parcial fiado succeeds for every new
\* amount monto with monto > 0 and monto >= monto_pagado, and with monto equal
\* to the current monto_total (the edit of the nota alone) it leaves
\* monto_original, monto_total, saldo_pendiente and interes_porcentaje as they were
C39_EdicionProcede ==
    [][(/\ pc[1] = "mf_update"
        /\ args[1].id \in DOMAIN db.fiados
        /\ db.fiados[args[1].id].estado \in {PENDIENTE, PARCIAL}
        /\ args[1].monto > 0
        /\ args[1].monto >= db.fiados[args[1].id].monto_pagado) =>
           /\ result'.op = "modificar_fiado"
           /\ result'.status = "ok"
           /\ args[1].monto = db.fiados[args[1].id].monto_total =>
                  LET old == db.fiados[args[1].id]
                      new == db'.fiados[args[1].id]
                  IN  /\ new.monto_original = old.monto_original
                      /\ new.monto_total = old.monto_total
                      /\ new.saldo_pendiente = old.saldo_pendiente
                      /\ new.interes_porcentaje = old.interes_porcentaje]_vars

\* the fiado and its payment rows are in store e exactly as in store d
MismoFiado(d, e, f) ==
    /\ f \in DOMAIN e.fiados
    /\ e.fiados[f] = d.fiados[f]
    /\ PagosDelFiado(e, f) = PagosDelFiado(d, f)

\* C40: a step of aplicar_interes_fiados_cliente or pagar_todos_fiados_cliente
\* for a client leaves every fiado of any other client and every fiado of that
\* client that is already Pagado, with their payment rows, as they were; a step
\* of registrar_pago_fiado, modificar_fiado or eliminar_fiado on a fiado leaves
\* every other fiado and its payment rows as they were
C40_SoloLoPedido ==
    [][db' # db =>
          \A p \in Procs :
              (pc[p] # "idle" /\ pc'[p] = "idle") =>
                  /\ result'.op \in {"aplicar_interes_fiados_cliente", "pagar_todos_fiados_cliente"} =>
                        \A f \in DOMAIN db.fiados :
                            (db.fiados[f].cliente_id # args[p].id \/ db.fiados[f].estado = PAGADO) =>
                                MismoFiado(db, db', f)
                  /\ result'.op \in {"registrar_pago_fiado", "modificar_fiado", "eliminar_fiado"} =>
                        \A f \in DOMAIN db.fiados \ {args[p].id} : MismoFiado(db, db', f)]_vars

\* C40 witness: interest was applied to the open fiado of one client while
\* another client has an open fiado, which carries no interest
C40_Witness ==
    /\ result.op = "aplicar_interes_fiados_cliente"
    /\ result.status = "ok"
    /\ \E f, g \in Fiados :
          /\ db.fiados[f].cliente_id = result.val.cliente_id
          /\ db.fiados[f].interes_porcentaje = 5
          /\ db.fiados[g].cliente_id # result.val.cliente_id
          /\ db.fiados[g].estado = PENDIENTE
          /\ db.fiados[g].interes_porcentaje = 0

====
